---- MODULE Spec2Model ----
(***************************************************************************)
(* Model of the bit-field functors of bitfield.cpp: one 16-bit register    *)
(* image (struct genpurpIO_register) and the three partial specializations *)
(* of set_bits that control one named field each.                          *)
(*                                                                         *)
(* The image is kept as the 16-bit number the struct occupies, with the    *)
(* fields at the positions the bit-field declaration gives them (first     *)
(* declared field in the least significant bit), so that a store into one  *)
(* field is an arithmetic update of the whole word and a store that        *)
(* touches a neighbouring field is expressible.                            *)
(***************************************************************************)
EXTENDS Integers, Naturals, Sequences, FiniteSets, TLC

(* ------------------------------ bounds -------------------------------- *)

\* the padding bits take the values 0..MaxPad
MaxPad == 1

\* a caller passes the power levels -MaxNeg .. MaxArg and the integers
\* 65536-MaxTop .. 65536+MaxWrap around the end of the 16-bit range
MaxNeg == 1

MaxArg == 9

MaxTop == 1

MaxWrap == 8

\* functor objects constructed for each field over the shared image
NumInst == 2

\* power levels passed where the calls are followed as a sequence:
\* MinSeqArg .. MaxSeqArg and 65536 .. 65536+MaxSeqWrap
MaxSeqArg == 8

MinSeqArg == 6

MaxSeqWrap == 1

(* ------------------------ the register image -------------------------- *)

\* std::uint16_t holds 0 .. 2^16 - 1
U16 == 65536

Pow2(n) == 2 ^ n

\* bit position and width of each field of struct genpurpIO_register
SOL2_POS == 0

SOL2_BITS == 1

SOL3_POS == 1

SOL3_BITS == 1

PWR_POS == 2

PWR_BITS == 3

PAD_POS == 5

PAD_BITS == 11

\* reading a bit-field: the field's bits as an unsigned number
Field(img, pos, bits) == (img \div Pow2(pos)) % Pow2(bits)

\* a store that rebuilds the word from the field upwards and so clears
\* every field below the one it writes
StoreField_clears_below(img, pos, bits, v) ==
    (img \div Pow2(pos + bits)) * Pow2(pos + bits) + (v % Pow2(bits)) * Pow2(pos)

\* the store rewrites the word from the field upwards
StoreField_clears_above(img, pos, bits, v) ==
    (img % Pow2(pos)) + (v % Pow2(bits)) * Pow2(pos)

\* assigning to a bit-field: the value is truncated to the field's width and
\* only the field's bits of the word change
StoreField(img, pos, bits, v) ==
    img - Field(img, pos, bits) * Pow2(pos) + (v % Pow2(bits)) * Pow2(pos)

energize_vac_solenoid2(img) == Field(img, SOL2_POS, SOL2_BITS)

energize_vac_solenoid3(img) == Field(img, SOL3_POS, SOL3_BITS)

floodlight_pwr(img) == Field(img, PWR_POS, PWR_BITS)

padding(img) == Field(img, PAD_POS, PAD_BITS)

\* enum class vacuum : unsigned int { OFF, ON }, by the enumerators' values
OFF == 0

ON == 1

vacuum == {OFF, ON}

FLOODLIGHT_OOR == 8

LIGHTS_OUT == 0

\* the parameter is as wide as the caller's integer
ToU16_keeps_wide(n) == n

\* conversion of the integer a caller writes to the parameter type
\* floodlight_t (std::uint16_t)
ToU16(n) == n % U16

\* operator<< of an unsigned number: its decimal digits
RECURSIVE Digits(_)
Digits(n) == IF n < 10 THEN <<n>> ELSE Append(Digits(n \div 10), n % 10)

(* --------------------- set_bits<bf, solenoid2_t, vacuum> -------------- *)

NoErr == "none"

RangeError == "std::range_error"

NoMsg == <<>>

\* a call has an argument or not, and returns a value or not
NoVal == <<>>

Some(v) == <<v>>

\* the valve is left as it is
solenoid2_ctor_no_init(img) == img

\* the whole register is cleared
solenoid2_ctor_clears_all(img) == 0

solenoid2_ctor(img) == StoreField(img, SOL2_POS, SOL2_BITS, 0)

\* the store is left out
solenoid2_set_no_store(img, val) ==
    [ret |-> Some(IF energize_vac_solenoid2(img) = 0 THEN OFF ELSE ON),
     img |-> img,
     err |-> NoErr,
     msg |-> NoMsg]

solenoid2_set(img, val) ==
    [ret |-> Some(IF energize_vac_solenoid2(img) = 0 THEN OFF ELSE ON),
     img |-> StoreField(img, SOL2_POS, SOL2_BITS, IF val = OFF THEN 0 ELSE 1),
     err |-> NoErr,
     msg |-> NoMsg]

\* the comparison is made against 0
solenoid2_get_inverted(img) == IF energize_vac_solenoid2(img) = 0 THEN ON ELSE OFF

solenoid2_get(img) == IF energize_vac_solenoid2(img) = 1 THEN ON ELSE OFF

(* --------------------- set_bits<bf, solenoid3_t, vacuum> -------------- *)

\* the constructor only saves the address
solenoid3_ctor_no_init(img) == img

solenoid3_ctor(img) == StoreField(img, SOL3_POS, SOL3_BITS, 0)

\* the state is sampled after the store instead of before it
solenoid3_set_returns_new(img, val) ==
    [ret |-> Some(IF val = OFF THEN OFF ELSE ON),
     img |-> StoreField(img, SOL3_POS, SOL3_BITS, IF val = OFF THEN 0 ELSE 1),
     err |-> NoErr,
     msg |-> NoMsg]

solenoid3_set(img, val) ==
    [ret |-> Some(IF energize_vac_solenoid3(img) = 0 THEN OFF ELSE ON),
     img |-> StoreField(img, SOL3_POS, SOL3_BITS, IF val = OFF THEN 0 ELSE 1),
     err |-> NoErr,
     msg |-> NoMsg]

solenoid3_get(img) == IF energize_vac_solenoid3(img) = 1 THEN ON ELSE OFF

(* ------------------ set_bits<bf, floodlight_t, floodlight_t> ---------- *)

\* the constructor only saves the address
floodlight_ctor_no_init(img) == img

floodlight_ctor(img) == StoreField(img, PWR_POS, PWR_BITS, LIGHTS_OUT)

\* the message names the limit instead of the parameter
floodlight_msg_names_limit(val) ==
    << "Incorrect attempt to set floodlight #42 pwr value to (",
       Digits(FLOODLIGHT_OOR),
       "). Valid pwr settings range for floodlight #42 is ",
       Digits(0), ":", Digits(7), ". " >>

\* the text streamed into msg, the number as its digits and the literal
\* "0:7" split into its two numbers
floodlight_msg(val) ==
    << "Incorrect attempt to set floodlight #42 pwr value to (",
       Digits(val),
       "). Valid pwr settings range for floodlight #42 is ",
       Digits(0), ":", Digits(7), ". " >>

\* the comparison is strict
floodlight_oor_strict(val) == val > FLOODLIGHT_OOR

\* the comparison is against the largest valid level
floodlight_oor_at_max(val) == val >= FLOODLIGHT_OOR - 1

floodlight_oor(val) == val >= FLOODLIGHT_OOR

\* the new setting is returned instead of the prior one
floodlight_set_returns_new(img, val) ==
    IF floodlight_oor(val)
    THEN [ret |-> NoVal, img |-> img, err |-> RangeError,
          msg |-> floodlight_msg(val)]
    ELSE [ret |-> Some(val),
          img |-> StoreField(img, PWR_POS, PWR_BITS, val),
          err |-> NoErr,
          msg |-> NoMsg]

\* val is the parameter, already of type floodlight_t
floodlight_set(img, val) ==
    IF floodlight_oor(val)
    THEN [ret |-> NoVal, img |-> img, err |-> RangeError,
          msg |-> floodlight_msg(val)]
    ELSE [ret |-> Some(floodlight_pwr(img)),
          img |-> StoreField(img, PWR_POS, PWR_BITS, val),
          err |-> NoErr,
          msg |-> NoMsg]

\* the functor answers from the setting it stored at construction
floodlight_get_cached(img) == LIGHTS_OUT

floodlight_get(img) == floodlight_pwr(img)

(* ------------------------------ state --------------------------------- *)

VARIABLES
    reg,    \* mock_reg84, the register image all three functors point to
    last,   \* the most recent call: what was called, with what, and its outcome
    prev    \* the call before it: what was called and with what

\* several functor objects per field, followed over a sequence of calls
VARIABLES
    mem,      \* the memory: the shared image and, per object, a cell of its own
    ptr,      \* ptr[i][acc]: the address object i of field acc saved in reg
    slast,    \* the most recent call
    who,      \* the object that made it
    written,  \* per field: argument and object of the latest accepted Write
              \* since the latest construction (the startup value if none)
    prior     \* what written held for the field of the most recent call

\* the unit test harness: main() and ut00 .. ut12
VARIABLES
    pc,               \* where main() is: "run", "catch", "summary", "done"
    ut,               \* the scenario main() is in (0 .. 12)
    step,             \* the assertion of that scenario that comes next
    mock_reg84,       \* mock_reg84[k]: the static image of scenario k
    ut_failed,        \* the scenario's own something_failed
    something_failed, \* main()'s something_failed (a bool: 0 or 1)
    out,              \* what the latest assertion wrote to stdout
    nlines,           \* assertion lines the current scenario has written
    thrown,           \* the exception that left a scenario
    unexpected,       \* the message written after "UNEXPECTED exception thrown: "
    banner,           \* the summary line
    exit_status,      \* the status the process ended with
    assert_failed,    \* some assertion has failed
    broken,           \* some functor call has misbehaved
    ran,              \* the scenarios that have returned, in the order they
                      \* did, up to the first call out of main()'s order
    returned,         \* the values scenarios have returned to main()
    checked           \* the two values the latest assertion compared

\* 'make all': the harness is run and its output compared with the stored one
VARIABLES
    make_pc,      \* the recipe make is at: "run_ut", "compare_ut_gold", "done"
    harness,      \* what a run of ut_bitfield.exe gives: its stdout and exit status
    ut_results,   \* the file ./bitfield_ut_output.txt (none: not written)
    gold_results, \* the file ./ut_ref_output/bitfield_ut_output.txt (none: missing)
    recipe_said,  \* the verdict the compare recipe echoed
    make_status   \* the exit status of make

\* an assertion of the boilerplate made with an intent of any length
VARIABLES
    fmt           \* the field asserted on and the length of the intent

\* main() calling the scenarios in another order, or again
VARIABLES
    picks         \* the calls made out of the order ut00, ut01, ..., ut12

\* two callers of Write on one field of one image, nothing serializing them
VARIABLES
    io,           \* the register image both functors are bound to
    racc,         \* the field both write
    rarg,         \* the value each caller passes
    rpc,          \* where each caller is in operator()(val)
    rword,        \* the word each caller has loaded for its store
    rret,         \* retval of each caller
    rinit,        \* the value of the field before the two calls
    order,        \* the callers in the order they read the previous value
    overlapped    \* a call has begun while the other was under way

accVars == <<reg, last, prev>>

raceVars == <<io, racc, rarg, rpc, rword, rret, rinit, order, overlapped>>

anyVars == <<picks>>

fmtVars == <<fmt>>

makeVars == <<make_pc, harness, ut_results, gold_results, recipe_said,
              make_status>>

utVars == <<pc, ut, step, mock_reg84, ut_failed, something_failed, out, nlines,
            thrown, unexpected, banner, exit_status, assert_failed, broken,
            ran, returned, checked>>

extVars == <<makeVars, fmtVars, anyVars, raceVars>>

seqVars == <<mem, ptr, slast, who, written, prior>>

vars == <<accVars, seqVars, utVars, extVars>>

SOL2 == "solenoid2"

SOL3 == "solenoid3"

LAMP == "floodlight"

Solenoids == {SOL2, SOL3}

\* the images the hardware can leave in the register
Images == {f + Pow2(PAD_POS) * p : f \in 0 .. (Pow2(PAD_POS) - 1), p \in 0 .. MaxPad}

\* the integers a caller passes as a power level
LevelArgs == ((0 - MaxNeg) .. MaxArg) \cup ((U16 - MaxTop) .. (U16 + MaxWrap))

NoCall == [op |-> "none", acc |-> "none", arg |-> NoVal]

Brief(c) == [op |-> c.op, acc |-> c.acc, arg |-> c.arg]

Call(op, acc, arg, ret, err, msg, pre) ==
    [op |-> op, acc |-> acc, arg |-> arg, ret |-> ret, err |-> err,
     msg |-> msg, pre |-> pre]

\* the addresses: the static image, and for object i a cell i that only an
\* object holding the register by value would use
MOCK == 0

Instances == 1 .. NumInst

Addrs == {MOCK} \cup {i : i \in Instances}

\* the objects are not in use
SeqIdle ==
    /\ mem = 0
    /\ ptr = 0
    /\ slast = 0
    /\ who = 0
    /\ written = 0
    /\ prior = 0

\* the harness is not running
UtIdle ==
    /\ pc = "off" /\ ut = 0 /\ step = 0 /\ mock_reg84 = 0 /\ ut_failed = 0
    /\ something_failed = 0 /\ out = 0 /\ nlines = 0 /\ thrown = 0
    /\ unexpected = 0 /\ banner = 0 /\ exit_status = 0
    /\ assert_failed = FALSE /\ broken = FALSE
    /\ ran = 0 /\ returned = 0 /\ checked = 0

\* make is not running
MakeIdle ==
    /\ make_pc = "off" /\ harness = 0 /\ ut_results = 0 /\ gold_results = 0
    /\ recipe_said = 0 /\ make_status = 0

\* no assertion is being tried
FmtIdle == fmt = 0

\* the scenarios are called in the order of main()
AnyIdle == picks = 0

\* nobody calls Write concurrently
RaceIdle ==
    /\ io = 0 /\ racc = 0 /\ rarg = 0 /\ rpc = 0 /\ rword = 0 /\ rret = 0
    /\ rinit = 0 /\ order = 0 /\ overlapped = FALSE

\* nothing else is running
ExtIdle == MakeIdle /\ FmtIdle /\ AnyIdle /\ RaceIdle

\* main(): the static image is zero, then the three functors are constructed
Init ==
    /\ reg = floodlight_ctor(solenoid3_ctor(solenoid2_ctor(0)))
    /\ last = Call("none", "none", NoVal, NoVal, NoErr, NoMsg, 0)
    /\ prev = NoCall
    /\ SeqIdle
    /\ UtIdle
    /\ ExtIdle

(* ------------------------------ actions ------------------------------- *)

construct_solenoid2 ==
    /\ reg' = solenoid2_ctor(reg)
    /\ last' = Call("ctor", SOL2, NoVal, NoVal, NoErr, NoMsg, reg)
    /\ prev' = Brief(last)
    /\ UNCHANGED <<seqVars, utVars, extVars>>

write_solenoid2 ==
    \E val \in vacuum :
        LET r == solenoid2_set(reg, val) IN
        /\ reg' = r.img
        /\ last' = Call("write", SOL2, Some(val), r.ret, r.err, r.msg, reg)
        /\ prev' = Brief(last)
        /\ UNCHANGED <<seqVars, utVars, extVars>>

read_solenoid2 ==
    /\ reg' = reg
    /\ last' = Call("read", SOL2, NoVal, Some(solenoid2_get(reg)), NoErr, NoMsg, reg)
    /\ prev' = Brief(last)
    /\ UNCHANGED <<seqVars, utVars, extVars>>

construct_solenoid3 ==
    /\ reg' = solenoid3_ctor(reg)
    /\ last' = Call("ctor", SOL3, NoVal, NoVal, NoErr, NoMsg, reg)
    /\ prev' = Brief(last)
    /\ UNCHANGED <<seqVars, utVars, extVars>>

write_solenoid3 ==
    \E val \in vacuum :
        LET r == solenoid3_set(reg, val) IN
        /\ reg' = r.img
        /\ last' = Call("write", SOL3, Some(val), r.ret, r.err, r.msg, reg)
        /\ prev' = Brief(last)
        /\ UNCHANGED <<seqVars, utVars, extVars>>

read_solenoid3 ==
    /\ reg' = reg
    /\ last' = Call("read", SOL3, NoVal, Some(solenoid3_get(reg)), NoErr, NoMsg, reg)
    /\ prev' = Brief(last)
    /\ UNCHANGED <<seqVars, utVars, extVars>>

construct_floodlight ==
    /\ reg' = floodlight_ctor(reg)
    /\ last' = Call("ctor", LAMP, NoVal, NoVal, NoErr, NoMsg, reg)
    /\ prev' = Brief(last)
    /\ UNCHANGED <<seqVars, utVars, extVars>>

\* the caller's integer is converted to floodlight_t on the way in
write_floodlight ==
    \E arg \in LevelArgs :
        LET r == floodlight_set(reg, ToU16(arg)) IN
        /\ reg' = r.img
        /\ last' = Call("write", LAMP, Some(arg), r.ret, r.err, r.msg, reg)
        /\ prev' = Brief(last)
        /\ UNCHANGED <<seqVars, utVars, extVars>>

read_floodlight ==
    /\ reg' = reg
    /\ last' = Call("read", LAMP, NoVal, Some(floodlight_get(reg)), NoErr, NoMsg, reg)
    /\ prev' = Brief(last)
    /\ UNCHANGED <<seqVars, utVars, extVars>>

\* the register is volatile: the hardware may replace its content between
\* two calls (last.pre of such a step is the image the hardware left)
hardware_write ==
    \E img \in Images :
        /\ reg' = img
        /\ last' = Call("hw", "none", NoVal, NoVal, NoErr, NoMsg, img)
        /\ prev' = Brief(last)
        /\ UNCHANGED <<seqVars, utVars, extVars>>

Next ==
    \/ construct_solenoid2
    \/ write_solenoid2
    \/ read_solenoid2
    \/ construct_solenoid3
    \/ write_solenoid3
    \/ read_solenoid3
    \/ construct_floodlight
    \/ write_floodlight
    \/ read_floodlight
    \/ hardware_write

Spec == Init /\ [][Next]_vars

TypeOK ==
    /\ reg \in 0 .. (U16 - 1)
    /\ last.op \in {"none", "ctor", "read", "write", "hw"}
    /\ prev.op \in {"none", "ctor", "read", "write", "hw"}

(* -------------- several functors per field, calls in sequence --------- *)

Fields == {SOL2, SOL3, LAMP}

\* the integers a caller passes as a power level
SeqArgs == (MinSeqArg .. MaxSeqArg) \cup (U16 .. (U16 + MaxSeqWrap))

\* the object keeps a copy of the register for itself
bind_by_value(fld, i) == i

\* reg{fld}: the constructor saves the register's address
bind(fld, i) == fld

Ctor(acc, img) ==
    IF acc = SOL2 THEN solenoid2_ctor(img)
    ELSE IF acc = SOL3 THEN solenoid3_ctor(img)
    ELSE floodlight_ctor(img)

\* every Write goes to the first solenoid
Set_on_first_field(acc, img, arg) == solenoid2_set(img, arg)

Set(acc, img, arg) ==
    IF acc = SOL2 THEN solenoid2_set(img, arg)
    ELSE IF acc = SOL3 THEN solenoid3_set(img, arg)
    ELSE floodlight_set(img, ToU16(arg))

Get(acc, img) ==
    IF acc = SOL2 THEN solenoid2_get(img)
    ELSE IF acc = SOL3 THEN solenoid3_get(img)
    ELSE floodlight_get(img)

\* the value each constructor stores
Startup(acc) == IF acc = LAMP THEN LIGHTS_OUT ELSE OFF

NoWrite(acc) == [val |-> Startup(acc), by |-> 0]

\* as in main(): a zeroed register, then NumInst objects per field constructed
\* over it
SeqInit ==
    /\ ptr = [i \in Instances |-> [acc \in Fields |-> bind(MOCK, i)]]
    /\ mem = [a \in Addrs |->
                IF a = MOCK
                THEN floodlight_ctor(solenoid3_ctor(solenoid2_ctor(0)))
                ELSE 0]
    /\ slast = Call("none", "none", NoVal, NoVal, NoErr, NoMsg, 0)
    /\ who = 0
    /\ written = [acc \in Fields |-> NoWrite(acc)]
    /\ prior = NoWrite(LAMP)
    /\ reg = 0
    /\ last = Call("none", "none", NoVal, NoVal, NoErr, NoMsg, 0)
    /\ prev = NoCall
    /\ UtIdle
    /\ ExtIdle

SeqConstruct(i, acc) ==
    LET a == bind(MOCK, i) IN
    /\ ptr' = [ptr EXCEPT ![i][acc] = a]
    /\ mem' = [mem EXCEPT ![a] = Ctor(acc, mem[a])]
    /\ slast' = Call("ctor", acc, NoVal, NoVal, NoErr, NoMsg, mem[a])
    /\ who' = i
    /\ prior' = written[acc]
    /\ written' = [written EXCEPT ![acc] = NoWrite(acc)]
    /\ UNCHANGED <<accVars, utVars, extVars>>

SeqWrite(i, acc, arg) ==
    LET a == ptr[i][acc]
        r == Set(acc, mem[a], arg)
    IN
    /\ mem' = [mem EXCEPT ![a] = r.img]
    /\ slast' = Call("write", acc, Some(arg), r.ret, r.err, r.msg, mem[a])
    /\ who' = i
    /\ prior' = written[acc]
    /\ written' = IF r.err = NoErr
                  THEN [written EXCEPT ![acc] = [val |-> arg, by |-> i]]
                  ELSE written
    /\ UNCHANGED <<ptr, accVars, utVars, extVars>>

SeqRead(i, acc) ==
    LET a == ptr[i][acc] IN
    /\ slast' = Call("read", acc, NoVal, Some(Get(acc, mem[a])), NoErr, NoMsg, mem[a])
    /\ who' = i
    /\ prior' = written[acc]
    /\ UNCHANGED <<mem, ptr, written, accVars, utVars, extVars>>

seq_construct_solenoid2 == \E i \in Instances : SeqConstruct(i, SOL2)

seq_write_solenoid2 == \E i \in Instances, val \in vacuum : SeqWrite(i, SOL2, val)

seq_read_solenoid2 == \E i \in Instances : SeqRead(i, SOL2)

seq_construct_solenoid3 == \E i \in Instances : SeqConstruct(i, SOL3)

seq_write_solenoid3 == \E i \in Instances, val \in vacuum : SeqWrite(i, SOL3, val)

seq_read_solenoid3 == \E i \in Instances : SeqRead(i, SOL3)

seq_construct_floodlight == \E i \in Instances : SeqConstruct(i, LAMP)

seq_write_floodlight == \E i \in Instances, arg \in SeqArgs : SeqWrite(i, LAMP, arg)

seq_read_floodlight == \E i \in Instances : SeqRead(i, LAMP)

SeqNext ==
    \/ seq_construct_solenoid2
    \/ seq_write_solenoid2
    \/ seq_read_solenoid2
    \/ seq_construct_solenoid3
    \/ seq_write_solenoid3
    \/ seq_read_solenoid3
    \/ seq_construct_floodlight
    \/ seq_write_floodlight
    \/ seq_read_floodlight

SpecSeq == SeqInit /\ [][SeqNext]_vars

(* ------------------------- the unit test harness ---------------------- *)

FULL_ILLUMINATION == 7

BRIGHT_LIGHTS == 4

MOOD_LIGHTING == 2

VERY_DIM_LIGHTS == 1

\* a text is a sequence of characters; a character of an intent that is not
\* a dot is written "x" (rtrim tells dots from the rest and nothing else)
Text(n) == [k \in 1 .. n |-> "x"]

Dots(n) == [k \in 1 .. n |-> "."]

\* the dots note4 appends to an intent
note4_dots == Dots(54)

ok_text == <<"o", "k">>

failed_text == <<"F", "A", "I", "L", "E", "D", "!">>

ok_col_pos == 95

OutOfRange == "std::out_of_range"

\* what() of the exception std::string::insert throws
insert_what == <<"basic_string::insert">>

NoThrow == [type |-> NoErr, msg |-> NoMsg]

\* insert(pos, t) also refuses the position just behind the last character
insert_throws_at_end(s, pos) == pos >= Len(s)

\* std::string::insert(pos, t) throws when pos is beyond the end of the string
insert_throws(s, pos) == pos > Len(s)

insert(s, pos, t) == SubSeq(s, 1, pos) \o t \o SubSeq(s, pos + 1, Len(s))

\* nothing is erased
rtrim_keeps_dots(s) == s

\* erase everything after the last character that is not a dot
rtrim(s) ==
    LET keep == {k \in 1 .. Len(s) : s[k] # "."} IN
    IF keep = {} THEN <<>>
    ELSE SubSeq(s, 1, CHOOSE k \in keep :
                            \A m \in (k + 1) .. Len(s) : s[m] = ".")

\* the marker is inserted at the start of the string
columnize_at_front(intent, marker) ==
    [text |-> rtrim(insert(intent \o note4_dots, 0, marker)), err |-> NoErr]

\* note1, note4: pad the intent with dots, put the marker at the tab stop,
\* drop the dots that are left after it
columnize(intent, marker) ==
    LET tmp == intent \o note4_dots IN
    IF insert_throws(tmp, ok_col_pos)
    THEN [text |-> <<>>, err |-> OutOfRange]
    ELSE [text |-> rtrim(insert(tmp, ok_col_pos, marker)), err |-> NoErr]

\* one assertion: its id, its intent, its result (0 passed, 1 failed), the
\* text it wrote after "utNN: " and, on a failure, the values it wrote as
\* expected(...) and encountered(...) below the intent
Output(utid, intent, ret, text, expected, encountered) ==
    [utid |-> utid, intent |-> intent, ret |-> ret, text |-> text,
     expected |-> expected, encountered |-> encountered]

NoOutput == Output(0, <<>>, 0, <<>>, NoVal, NoVal)

\* the comparison an assertion makes: actual value against expected value
Check(actual, expected) == [actual |-> Some(actual), expected |-> Some(expected)]

NoCheck == [actual |-> NoVal, expected |-> NoVal]

\* a failed comparison throws instead of being reported
ut_verify_solenoid_state_throws(utid, intent, actual_state, expected_state) ==
    IF actual_state = expected_state
    THEN LET c == columnize(intent, ok_text) IN
         [ret |-> 0, err |-> c.err,
          out |-> Output(utid, intent, 0, c.text, NoVal, NoVal)]
    ELSE [ret |-> 1, err |-> "std::logic_error",
          out |-> Output(utid, intent, 1, <<>>, NoVal, NoVal)]

ut_verify_solenoid_state(utid, intent, actual_state, expected_state) ==
    IF actual_state = expected_state
    THEN LET c == columnize(intent, ok_text) IN
         [ret |-> 0, err |-> c.err,
          out |-> Output(utid, intent, 0, c.text, NoVal, NoVal)]
    ELSE [ret |-> 1, err |-> NoErr,
          out |-> Output(utid, intent, 1, failed_text,
                         Some(expected_state), Some(actual_state))]

ut_verify_lamp_state(utid, intent, actual_settings, expected_settings) ==
    IF actual_settings = expected_settings
    THEN LET c == columnize(intent, ok_text) IN
         [ret |-> 0, err |-> c.err,
          out |-> Output(utid, intent, 0, c.text, NoVal, NoVal)]
    ELSE [ret |-> 1, err |-> NoErr,
          out |-> Output(utid, intent, 1, failed_text,
                         Some(actual_settings), Some(expected_settings))]

ut_verify(acc, utid, intent, actual, expected) ==
    IF acc = LAMP
    THEN ut_verify_lamp_state(utid, intent, actual, expected)
    ELSE ut_verify_solenoid_state(utid, intent, actual, expected)

\* the result is assigned, not accumulated
accumulate_overwrites(flag, n) == IF n # 0 THEN 1 ELSE 0

\* the flag is kept as a one-bit counter
accumulate_wraps(flag, n) == (flag + n) % 2

\* something_failed += n, something_failed being a bool
accumulate(flag, n) == IF flag + n # 0 THEN 1 ELSE 0

Scenarios == 0 .. 12

\* one verified call of a scenario: the functor call, the value expected of it
\* and the intent (its length in characters)
Assertion(op, arg, expected, len) ==
    [op |-> op, arg |-> arg, expected |-> expected, intent |-> Text(len)]

\* a scenario: the field of its functor, the Write made as a precondition (if
\* any) and its assertions
Scenario(acc, pre, asserts) == [acc |-> acc, pre |-> pre, asserts |-> asserts]

\* how the functor under test answers a call: as its code says ("none"), with
\* another value ("wrong"), or with a range error ("throws", power Write only)
Faults(acc, op) ==
    IF acc = LAMP /\ op = "write" THEN {"none", "wrong", "throws"}
    ELSE {"none", "wrong"}

\* a value the functor was not meant to return
Other(acc, v) == IF acc = LAMP THEN (v + 1) % FLOODLIGHT_OOR ELSE ON - v

\* scenario k returns to main()
Ran(h, k) == IF picks = 0 THEN Append(h, k) ELSE h

\* the functor is bound to the image as the last call left it
Prepared_no_ctor(S, img) ==
    IF S.pre = <<>> THEN img ELSE Set(S.acc, img, S.pre[1]).img

\* the scenario's static image once the functor is constructed and the
\* precondition Write is made
Prepared(S, img) ==
    LET c == Ctor(S.acc, img) IN
    IF S.pre = <<>> THEN c ELSE Set(S.acc, c, S.pre[1]).img

RunScenario(k, S) ==
    /\ pc = "run" /\ ut = k
    /\ LET a == S.asserts[step + 1]
           fresh == step = 0
           base == IF fresh THEN 0 ELSE ut_failed
           img0 == IF fresh THEN Prepared(S, mock_reg84[k]) ELSE mock_reg84[k]
           r == IF a.op = "write"
                THEN Set(S.acc, img0, a.arg[1])
                ELSE [ret |-> Some(Get(S.acc, img0)), img |-> img0,
                      err |-> NoErr, msg |-> NoMsg]
       IN
       \E fault \in Faults(S.acc, a.op) :
           /\ broken' = (broken \/ fault # "none")
           /\ IF fault = "throws" \/ r.err # NoErr
              THEN \* the call throws: nothing is printed, the scenario is left
                   /\ thrown' = [type |-> RangeError,
                                 msg |-> IF r.err # NoErr THEN r.msg
                                         ELSE floodlight_msg(a.arg[1])]
                   /\ pc' = "catch"
                   /\ mock_reg84' = [mock_reg84 EXCEPT ![k] = img0]
                   /\ UNCHANGED <<ut, step, ut_failed, something_failed, out,
                                  nlines, assert_failed, ran, returned, checked>>
              ELSE LET actual == IF fault = "wrong" THEN Other(S.acc, r.ret[1])
                                 ELSE r.ret[1]
                       v == ut_verify(S.acc, k, a.intent, actual, a.expected)
                   IN
                   /\ mock_reg84' = [mock_reg84 EXCEPT ![k] = r.img]
                   /\ out' = v.out
                   /\ checked' = Check(actual, a.expected)
                   /\ IF v.err # NoErr
                      THEN \* insert() throws after "utNN: " is printed
                           /\ thrown' = [type |-> v.err, msg |-> insert_what]
                           /\ pc' = "catch"
                           /\ UNCHANGED <<ut, step, ut_failed, something_failed,
                                          nlines, assert_failed, ran, returned>>
                      ELSE /\ nlines' = (IF fresh THEN 0 ELSE nlines) + 1
                           /\ assert_failed' = (assert_failed \/ v.ret # 0)
                           /\ ut_failed' = base + v.ret
                           /\ IF step + 1 = Len(S.asserts)
                              THEN \* return something_failed; main accumulates
                                   /\ something_failed' =
                                        accumulate(something_failed, base + v.ret)
                                   /\ ut' = k + 1
                                   /\ step' = 0
                                   /\ ran' = Ran(ran, k)
                                   /\ returned' = returned \cup {base + v.ret}
                              ELSE /\ step' = step + 1
                                   /\ UNCHANGED <<ut, something_failed, ran,
                                                  returned>>
                           /\ UNCHANGED <<pc, thrown>>
    /\ UNCHANGED <<unexpected, banner, exit_status, accVars, seqVars, extVars>>

ut00 ==
    RunScenario(0, Scenario(SOL2, <<>>, <<Assertion("read", NoVal, OFF, 58)>>))

ut01 ==
    RunScenario(1, Scenario(SOL3, <<>>, <<Assertion("read", NoVal, OFF, 58)>>))

ut02 ==
    RunScenario(2, Scenario(LAMP, <<>>,
                            <<Assertion("read", NoVal, LIGHTS_OUT, 58)>>))

ut03 ==
    RunScenario(3, Scenario(SOL2, <<>>,
                            <<Assertion("write", Some(ON), OFF, 89),
                              Assertion("read", NoVal, ON, 60)>>))

ut04 ==
    RunScenario(4, Scenario(SOL3, <<>>,
                            <<Assertion("write", Some(ON), OFF, 89),
                              Assertion("read", NoVal, ON, 60)>>))

ut05 ==
    RunScenario(5, Scenario(SOL2, <<ON>>,
                            <<Assertion("write", Some(OFF), ON, 89),
                              Assertion("read", NoVal, OFF, 63)>>))

ut06 ==
    RunScenario(6, Scenario(SOL3, <<ON>>,
                            <<Assertion("write", Some(OFF), ON, 89),
                              Assertion("read", NoVal, OFF, 63)>>))

ut07 ==
    RunScenario(7, Scenario(LAMP, <<>>,
                            <<Assertion("write", Some(FULL_ILLUMINATION), LIGHTS_OUT, 89),
                              Assertion("read", NoVal, FULL_ILLUMINATION, 56)>>))

ut08 ==
    RunScenario(8, Scenario(LAMP, <<FULL_ILLUMINATION>>,
                            <<Assertion("write", Some(BRIGHT_LIGHTS), FULL_ILLUMINATION, 90),
                              Assertion("read", NoVal, BRIGHT_LIGHTS, 47)>>))

ut09 ==
    RunScenario(9, Scenario(LAMP, <<BRIGHT_LIGHTS>>,
                            <<Assertion("write", Some(MOOD_LIGHTING), BRIGHT_LIGHTS, 90),
                              Assertion("read", NoVal, MOOD_LIGHTING, 47)>>))

ut10 ==
    RunScenario(10, Scenario(LAMP, <<MOOD_LIGHTING>>,
                             <<Assertion("write", Some(VERY_DIM_LIGHTS), MOOD_LIGHTING, 90),
                               Assertion("read", NoVal, VERY_DIM_LIGHTS, 47)>>))

ut11 ==
    RunScenario(11, Scenario(LAMP, <<VERY_DIM_LIGHTS>>,
                             <<Assertion("write", Some(LIGHTS_OUT), VERY_DIM_LIGHTS, 90),
                               Assertion("read", NoVal, LIGHTS_OUT, 51)>>))

\* the handler of ut12 catches nothing
ut12_catches_nothing(type) == FALSE

\* catch (std::range_error & e)
ut12_catches(type) == type = RangeError

\* Floodlamp Out of range exception. The functor under test throws as its
\* code says ("none") or accepts the value without throwing ("silent").
ut12 ==
    /\ pc = "run" /\ ut = 12
    /\ LET img0 == floodlight_ctor(mock_reg84[12])
           ut_intent == Text(45) \o <<".">>
           r == floodlight_set(img0, FLOODLIGHT_OOR)
       IN
       \E fault \in {"none", "silent"} :
           LET threw == r.err # NoErr /\ fault = "none"
               raised == threw /\ ut12_catches(r.err)
               c == columnize(ut_intent, IF raised THEN ok_text ELSE failed_text)
               ret == IF raised THEN 0 ELSE 1
           IN
           /\ broken' = (broken \/ fault # "none")
           /\ mock_reg84' = [mock_reg84 EXCEPT ![12] = r.img]
           /\ IF threw /\ ~raised
              THEN \* no handler in ut12: the exception leaves the scenario
                   /\ thrown' = [type |-> r.err, msg |-> r.msg]
                   /\ pc' = "catch"
                   /\ out' = Output(12, ut_intent, 0, <<>>, NoVal, NoVal)
                   /\ UNCHANGED <<ut, ut_failed, something_failed, nlines,
                                  assert_failed, ran, returned>>
              ELSE /\ out' = Output(12, ut_intent, ret, c.text, NoVal, NoVal)
                   /\ IF c.err # NoErr
                      THEN /\ thrown' = [type |-> c.err, msg |-> insert_what]
                           /\ pc' = "catch"
                           /\ UNCHANGED <<ut, ut_failed, something_failed,
                                          nlines, assert_failed, ran, returned>>
                      ELSE /\ nlines' = 1
                           /\ assert_failed' = (assert_failed \/ ret # 0)
                           /\ ut_failed' = ret
                           /\ something_failed' = accumulate(something_failed, ret)
                           /\ ut' = 13
                           /\ ran' = Ran(ran, 12)
                           /\ returned' = returned \cup {ret}
                           /\ pc' = "summary"
                           /\ UNCHANGED thrown
    /\ UNCHANGED <<step, unexpected, banner, exit_status, checked, accVars,
                   seqVars, extVars>>

\* the handler reports the exception and enters the try block again
main_catch_retries ==
    /\ pc = "catch"
    /\ unexpected' = Some(thrown.msg)
    /\ something_failed' = 1
    /\ pc' = "run"
    /\ UNCHANGED <<ut, step, mock_reg84, ut_failed, out, nlines, thrown, banner,
                   exit_status, assert_failed, broken, ran, returned, checked,
                   accVars, seqVars, extVars>>

\* the handler reports the exception and leaves the flag as it is
main_catch_keeps_flag ==
    /\ pc = "catch"
    /\ unexpected' = Some(thrown.msg)
    /\ pc' = "summary"
    /\ UNCHANGED <<ut, step, mock_reg84, ut_failed, something_failed, out, nlines,
                   thrown, banner, exit_status, assert_failed, broken, ran,
                   returned, checked, accVars, seqVars, extVars>>

\* catch (std::exception& e)
main_catch ==
    /\ pc = "catch"
    /\ unexpected' = Some(thrown.msg)
    /\ something_failed' = 1
    /\ pc' = "summary"
    /\ UNCHANGED <<ut, step, mock_reg84, ut_failed, out, nlines, thrown, banner,
                   exit_status, assert_failed, broken, ran, returned, checked,
                   accVars, seqVars, extVars>>

\* if ( something_failed ) ... exit(1); else ... return 0;
main_summary ==
    /\ pc = "summary"
    /\ IF something_failed # 0
       THEN banner' = "UNIT TEST FAILED!" /\ exit_status' = Some(1)
       ELSE banner' = "UNIT TEST passed!" /\ exit_status' = Some(0)
    /\ pc' = "done"
    /\ UNCHANGED <<ut, step, mock_reg84, ut_failed, something_failed, out,
                   nlines, thrown, unexpected, assert_failed, broken, ran,
                   returned, checked, accVars, seqVars, extVars>>

\* main() up to the try block: static images are zero, main's three functors
\* are constructed, something_failed is false
UtStart ==
    /\ pc = "run"
    /\ ut = 0
    /\ step = 0
    /\ mock_reg84 = [k \in Scenarios |-> 0]
    /\ ut_failed = 0
    /\ something_failed = 0
    /\ out = NoOutput
    /\ nlines = 0
    /\ thrown = NoThrow
    /\ unexpected = NoVal
    /\ banner = ""
    /\ exit_status = NoVal
    /\ assert_failed = FALSE
    /\ broken = FALSE
    /\ ran = <<>>
    /\ returned = {}
    /\ checked = NoCheck
    /\ reg = floodlight_ctor(solenoid3_ctor(solenoid2_ctor(0)))
    /\ last = Call("none", "none", NoVal, NoVal, NoErr, NoMsg, 0)
    /\ prev = NoCall

UtInit ==
    /\ UtStart
    /\ SeqIdle
    /\ ExtIdle

UtNext ==
    \/ ut00
    \/ ut01
    \/ ut02
    \/ ut03
    \/ ut04
    \/ ut05
    \/ ut06
    \/ ut07
    \/ ut08
    \/ ut09
    \/ ut10
    \/ ut11
    \/ ut12
    \/ main_catch
    \/ main_summary

SpecUt == UtInit /\ [][UtNext]_vars

(* ----------------------- what the claims speak of --------------------- *)

\* the value a field holds in an image, computed from the bit positions alone
FieldNow(acc, img) ==
    IF acc = SOL2 THEN (IF img % 2 = 1 THEN ON ELSE OFF)
    ELSE IF acc = SOL3 THEN (IF (img \div 2) % 2 = 1 THEN ON ELSE OFF)
    ELSE (img \div 4) % 8

\* the number a sequence of decimal digits denotes
RECURSIVE DigitsValue(_)
DigitsValue(d) ==
    IF Len(d) = 0 THEN 0
    ELSE 10 * DigitsValue(SubSeq(d, 1, Len(d) - 1)) + d[Len(d)]

Levels == 0 .. 7

IsWrite(c, acc) == c.op = "write" /\ c.acc = acc

IsRead(c, acc) == c.op = "read" /\ c.acc = acc

IsCtor(c, acc) == c.op = "ctor" /\ c.acc = acc

\* C1: a Write(v) of the power functor with v in 0..7 succeeds and returns the
\* level the field held just before the call, and a Read() made right after
\* it returns v.
C1_WriteInRange ==
    /\ (IsWrite(last, LAMP) /\ last.arg[1] \in Levels) =>
            /\ last.err = NoErr
            /\ last.ret = Some(FieldNow(LAMP, last.pre))
            /\ Some(FieldNow(LAMP, reg)) = last.arg
    /\ (IsRead(last, LAMP) /\ IsWrite(prev, LAMP) /\ prev.arg[1] \in Levels) =>
            last.ret = prev.arg

C1_Witness ==
    /\ IsRead(last, LAMP) /\ IsWrite(prev, LAMP)
    /\ prev.arg = Some(5) /\ last.ret = Some(5)

\* C2 as stated: a Write(v) of the power functor with any integer v >= 8
\* fails with std::range_error and leaves the whole image as it was.
C2_AnyIntegerRejected ==
    (IsWrite(last, LAMP) /\ last.arg[1] >= 8) =>
        (last.err = RangeError /\ reg = last.pre)

\* C2 amended: a Write(v) of the power functor with v in 8..65535 fails with
\* std::range_error and leaves the power field and the whole image as they
\* were.
C2_U16Rejected ==
    (IsWrite(last, LAMP) /\ last.arg[1] \in 8 .. (U16 - 1)) =>
        /\ last.err = RangeError
        /\ last.ret = NoVal
        /\ reg = last.pre
        /\ FieldNow(LAMP, reg) = FieldNow(LAMP, last.pre)

C2_Witness ==
    /\ IsWrite(last, LAMP) /\ last.arg = Some(8)
    /\ last.err = RangeError
    /\ FieldNow(LAMP, reg) = 7 /\ reg = last.pre

\* C3: a Write through one functor leaves what Read() returns for each of the
\* other two fields unchanged.
C3_DisjointFields ==
    last.op = "write" =>
        \A other \in {SOL2, SOL3, LAMP} \ {last.acc} :
            FieldNow(other, reg) = FieldNow(other, last.pre)

C3_Witness ==
    /\ IsWrite(last, LAMP) /\ last.arg = Some(2)
    /\ FieldNow(LAMP, last.pre) = 5
    /\ FieldNow(SOL2, reg) = ON /\ FieldNow(SOL3, reg) = ON

\* C4: a solenoid Write(s2) made right after a Write(s1) on the same functor
\* returns s1.
C4_PreviousValue ==
    \A acc \in Solenoids :
        (IsWrite(last, acc) /\ IsWrite(prev, acc)) => last.ret = prev.arg

C4_Witness ==
    /\ IsWrite(last, SOL3) /\ IsWrite(prev, SOL3)
    /\ prev.arg = Some(ON) /\ last.arg = Some(OFF) /\ last.ret = Some(ON)

\* C5: a solenoid Write(s) followed by Read() yields s, whatever the bit held
\* before the Write.
C5_WriteThenRead ==
    \A acc \in Solenoids :
        /\ IsWrite(last, acc) => Some(FieldNow(acc, reg)) = last.arg
        /\ (IsRead(last, acc) /\ IsWrite(prev, acc)) => last.ret = prev.arg

C5_Witness ==
    /\ IsRead(last, SOL2) /\ IsWrite(prev, SOL2)
    /\ prev.arg = Some(ON) /\ last.ret = Some(ON)

\* C6: constructing a solenoid functor forces its bit to de-energized: a
\* Read() right after the construction returns OFF, whatever the image held.
C6_SolenoidCtorOff ==
    \A acc \in Solenoids :
        /\ IsCtor(last, acc) => FieldNow(acc, reg) = OFF
        /\ (IsRead(last, acc) /\ IsCtor(prev, acc)) => last.ret = Some(OFF)

C6_Witness ==
    /\ IsCtor(last, SOL3)
    /\ FieldNow(SOL3, last.pre) = ON
    /\ FieldNow(SOL3, reg) = OFF

\* C7: constructing the power functor forces the power field to zero: a Read()
\* right after the construction returns 0, whatever the image held.
C7_FloodlightCtorZero ==
    /\ IsCtor(last, LAMP) => FieldNow(LAMP, reg) = 0
    /\ (IsRead(last, LAMP) /\ IsCtor(prev, LAMP)) => last.ret = Some(0)

C7_Witness ==
    /\ IsCtor(last, LAMP)
    /\ FieldNow(LAMP, last.pre) = 7
    /\ FieldNow(LAMP, reg) = 0

\* C8 as stated: the message of the range error names the value that was
\* passed to Write and the valid range 0 to 7.
C8_MessageNamesPassedValue ==
    last.err = RangeError =>
        /\ DigitsValue(last.msg[2]) = last.arg[1]
        /\ DigitsValue(last.msg[4]) = 0
        /\ DigitsValue(last.msg[6]) = 7

\* C8 amended: the message of the range error names the value the 16-bit
\* parameter received, which is the passed integer modulo 2^16 (the passed
\* integer itself when that is in 8..65535), and the valid range 0 to 7.
C8_MessageNamesReceivedValue ==
    last.err = RangeError =>
        /\ DigitsValue(last.msg[2]) = last.arg[1] % U16
        /\ (last.arg[1] \in 8 .. (U16 - 1) =>
                DigitsValue(last.msg[2]) = last.arg[1])
        /\ DigitsValue(last.msg[4]) = 0
        /\ DigitsValue(last.msg[6]) = 7

C8_Witness ==
    /\ IsWrite(last, LAMP) /\ last.arg = Some(9)
    /\ last.err = RangeError
    /\ last.msg[2] = <<9>>

\* C9: std::range_error comes only from a Write of the power functor with a
\* value outside 0..7: never from a construction, a Read, a solenoid Write or
\* a power Write with a value in 0..7.
C9_OnlyOutOfRangeWriteThrows ==
    /\ last.err \in {NoErr, RangeError}
    /\ last.err = RangeError =>
            (IsWrite(last, LAMP) /\ last.arg[1] \notin Levels)

C9_Witness ==
    /\ IsWrite(last, LAMP) /\ last.arg = Some(U16 - 1)
    /\ last.err = RangeError

\* C10: a functor keeps no copy of its field: once the hardware has changed
\* the image, the next Read() returns the field as it now is in the image, and
\* the next accepted Write returns that value as the previous one.
C10_NoCachedCopy ==
    (prev.op = "hw" /\ last.op \in {"read", "write"} /\ last.err = NoErr) =>
        /\ last.ret = Some(FieldNow(last.acc, last.pre))
        /\ last.op = "read" => reg = last.pre

C10_Witness ==
    /\ prev.op = "hw" /\ IsRead(last, LAMP)
    /\ last.ret = Some(6)
    /\ padding(reg) = 1

\* the value a Write's argument has once the functor has received it
Received(acc, v) == IF acc = LAMP THEN v % U16 ELSE v

\* what object i of field acc reads now
ReadVia(i, acc) == Get(acc, mem[ptr[i][acc]])

\* C11: two functors constructed for the same field over the same image stay
\* consistent: a Read() through either returns the same value, and an accepted
\* Write through one returns the value last written through the other.
C11_DuplicatesConsistent ==
    /\ \A acc \in Fields : \A i, j \in Instances :
            ReadVia(i, acc) = ReadVia(j, acc)
    /\ (slast.op = "write" /\ slast.err = NoErr /\ prior.by \notin {0, who}) =>
            slast.ret = Some(Received(slast.acc, prior.val))

C11_Witness ==
    /\ IsWrite(slast, LAMP) /\ slast.err = NoErr
    /\ prior.by \notin {0, who}
    /\ prior.val = 7
    /\ slast.ret = Some(7)
    /\ slast.arg = Some(U16)

\* C12: Read() changes nothing and always answers: a solenoid Read() returns
\* ON exactly when the solenoid's bit in the image is 1, and a power Read()
\* returns the three-bit value of the power field, a level in 0..7.
C12_ReadPureTotal ==
    last.op = "read" =>
        /\ reg = last.pre
        /\ last.err = NoErr
        /\ last.acc = SOL2 => (last.ret = Some(ON) <=> last.pre % 2 = 1)
        /\ last.acc = SOL3 => (last.ret = Some(ON) <=> (last.pre \div 2) % 2 = 1)
        /\ last.acc \in Solenoids => last.ret \in {Some(OFF), Some(ON)}
        /\ last.acc = LAMP =>
                /\ last.ret = Some((last.pre \div 4) % 8)
                /\ last.ret[1] \in Levels

C12_Witness ==
    /\ IsRead(last, SOL2) /\ last.ret = Some(ON)
    /\ IsRead(prev, LAMP)
    /\ FieldNow(LAMP, reg) = 5
    /\ padding(reg) = 1

\* the padding of an image, computed from the bit positions alone
PadNow(img) == img \div 32

\* C13: no constructor, Read or Write of any functor changes the eleven
\* padding bits: after each of them the padding is what it was before.
C13_PaddingUntouched ==
    last.op \in {"ctor", "read", "write"} => PadNow(reg) = PadNow(last.pre)

C13_Witness ==
    /\ IsWrite(last, LAMP) /\ last.arg = Some(7) /\ last.err = NoErr
    /\ PadNow(last.pre) = 1
    /\ FieldNow(LAMP, last.pre) = 0
    /\ PadNow(reg) = 1

PASSED == "UNIT TEST passed!"

FAILED == "UNIT TEST FAILED!"

\* C14: the run ends with 'UNIT TEST passed!' and exit status 0 exactly when
\* every assertion succeeded and no exception reached main(); in every other
\* case it ends with the failure banner and a non-zero exit status. Nothing is
\* summarised before the end.
C14_SummaryIffAllPassed ==
    /\ pc = "done" =>
          /\ (banner = PASSED /\ exit_status = Some(0))
                <=> (~assert_failed /\ thrown.type = NoErr)
          /\ (assert_failed \/ thrown.type # NoErr) =>
                (banner = FAILED /\ exit_status # NoVal /\ exit_status[1] # 0)
    /\ pc # "done" => (banner = "" /\ exit_status = NoVal)

C14_Witness ==
    /\ pc = "done"
    /\ assert_failed /\ thrown.type = NoErr
    /\ out.utid = 12 /\ out.ret = 0
    /\ banner = FAILED /\ exit_status = Some(1)

C14_WitnessPassed ==
    pc = "done" /\ banner = PASSED /\ exit_status = Some(0) /\ ~broken

\* C15: ut12 makes two assertions, each reported on a line of its own: that
\* writing 8 to the power functor raises the range error, and that the
\* error's message is well-formed. So once ut12 has returned, it has written
\* two assertion lines.
C15_Ut12TwoAssertions ==
    (ut = 13 /\ ~broken) => nlines = 2

\* C16: an exception that leaves a scenario (any but the range error ut12
\* provokes and catches itself) is caught in main(): it goes to the handler at
\* once, the handler writes its message after 'UNEXPECTED exception thrown: '
\* and sets the failure flag, and the run ends with the failure banner and a
\* non-zero exit status.
C16_UnexpectedCaught ==
    /\ thrown.type # NoErr => pc \in {"catch", "summary", "done"}
    /\ (thrown.type # NoErr /\ pc \in {"summary", "done"}) =>
            /\ unexpected = Some(thrown.msg)
            /\ something_failed = 1
    /\ (thrown.type # NoErr /\ pc = "done") =>
            /\ banner = FAILED
            /\ exit_status = Some(1)
    /\ thrown.type = NoErr => unexpected = NoVal

C16_Witness ==
    /\ pc = "done"
    /\ thrown.type = RangeError
    /\ ut = 8 /\ step = 0
    /\ ~assert_failed
    /\ unexpected = Some(floodlight_msg(BRIGHT_LIGHTS))
    /\ exit_status = Some(1)

\* the lines a run of the harness as written puts on stdout: for each line the
\* scenario and the number of characters before the filler dots
GoldLine(utid, len) == [utid |-> utid, len |-> len]

Gold ==
    <<GoldLine(0, 58), GoldLine(1, 58), GoldLine(2, 58),
      GoldLine(3, 89), GoldLine(3, 60), GoldLine(4, 89), GoldLine(4, 60),
      GoldLine(5, 89), GoldLine(5, 63), GoldLine(6, 89), GoldLine(6, 63),
      GoldLine(7, 89), GoldLine(7, 56), GoldLine(8, 90), GoldLine(8, 47),
      GoldLine(9, 90), GoldLine(9, 47), GoldLine(10, 90), GoldLine(10, 47),
      GoldLine(11, 90), GoldLine(11, 51), GoldLine(12, 45)>>

\* assertion lines written when main() is at scenario ut, assertion step
LinesSoFar ==
    IF ut <= 3 THEN ut + step
    ELSE IF ut <= 12 THEN 3 + 2 * (ut - 3) + step
    ELSE Len(Gold)

\* C17: the output of the harness is deterministic. The harness takes no
\* input, so two runs of the unchanged harness agree when every run is the
\* same run: at each point of main() the line just written is one fixed line
\* (the n-th line of one fixed transcript), no exception is in flight, and the
\* run ends with 'UNIT TEST passed!' and exit status 0.
C17_OutputDeterministic ==
    ~broken =>
        LET n == LinesSoFar IN
        /\ pc \in {"run", "summary", "done"}
        /\ thrown = NoThrow /\ unexpected = NoVal /\ ~assert_failed
        /\ n = 0 => out = NoOutput
        /\ n > 0 =>
              /\ out.utid = Gold[n].utid
              /\ out.ret = 0
              /\ out.text = [k \in 1 .. 97 |->
                                IF k <= Gold[n].len THEN "x"
                                ELSE IF k <= 95 THEN "."
                                ELSE IF k = 96 THEN "o" ELSE "k"]
        /\ pc = "done" => (banner = PASSED /\ exit_status = Some(0))
        /\ pc # "done" => (banner = "" /\ exit_status = NoVal)

C17_Witness ==
    /\ ~broken /\ pc = "done"
    /\ out.utid = 12 /\ Len(out.text) = 97
    /\ mock_reg84[7] = 28 /\ mock_reg84[8] = 16 /\ mock_reg84[3] = 1
    /\ exit_status = Some(0)

\* C18: the line of a passing assertion is the scenario id (ut and two
\* digits), ': ', the intent, filler dots up to offset 95 from the start of the
\* intent, and 'ok' as its last two characters; so 'ok' starts at the same
\* column on every passing line.
C18_OkColumn ==
    (out.ret = 0 /\ out.text # <<>>) =>
        LET t == out.text
            L == Len(out.intent)
        IN
        /\ out.utid \in 0 .. 99
        /\ L <= 95
        /\ Len(t) = 97
        /\ SubSeq(t, 1, L) = out.intent
        /\ \A k \in (L + 1) .. 95 : t[k] = "."
        /\ t[96] = "o" /\ t[97] = "k"

C18_Witness ==
    /\ out.ret = 0 /\ out.utid = 8
    /\ Len(out.intent) = 47
    /\ out.text[47] = "x" /\ out.text[48] = "." /\ out.text[96] = "o"
    /\ assert_failed

\* C19 as stated: with no write from outside, Read() of each field returns
\* the argument of the latest accepted Write to it since the latest
\* construction of a functor for it (the startup value OFF / 0 if there was
\* none), and an accepted Write returns that argument as the previous value.
C19_ReadsLastArgument ==
    /\ \A acc \in Fields : \A i \in Instances :
            ReadVia(i, acc) = written[acc].val
    /\ slast.op = "read" => slast.ret = Some(written[slast.acc].val)
    /\ (slast.op = "write" /\ slast.err = NoErr) => slast.ret = Some(prior.val)

\* C19: with no write from outside, Read() of each field returns the argument,
\* as the functor's unsigned 16-bit parameter received it (modulo 65536), of
\* the latest accepted Write to it since the latest construction of a functor
\* for it (the startup value OFF / 0 if there was none), and an accepted Write
\* returns that value as the previous value.
C19_ReadsLastReceived ==
    /\ \A acc \in Fields : \A i \in Instances :
            ReadVia(i, acc) = Received(acc, written[acc].val)
    /\ slast.op = "read" =>
            slast.ret = Some(Received(slast.acc, written[slast.acc].val))
    /\ (slast.op = "write" /\ slast.err = NoErr) =>
            slast.ret = Some(Received(slast.acc, prior.val))

C19_Witness ==
    /\ IsWrite(slast, LAMP) /\ slast.arg = Some(MaxSeqArg) /\ slast.err = RangeError
    /\ written[LAMP].val = U16 + 1
    /\ ReadVia(1, LAMP) = 1
    /\ written[SOL2].val = ON /\ written[SOL3].by = 0

\* C20: constructing a functor over an image in use resets the functor's own
\* field to its startup value (OFF / 0) whatever was written to it, and leaves
\* the other two fields as they were; every functor of that field then reads
\* the startup value.
C20_CtorResetsOwnField ==
    slast.op = "ctor" =>
        /\ FieldNow(slast.acc, mem[MOCK]) = Startup(slast.acc)
        /\ \A acc \in Fields \ {slast.acc} :
                FieldNow(acc, mem[MOCK]) = FieldNow(acc, slast.pre)
        /\ \A i \in Instances : ReadVia(i, slast.acc) = Startup(slast.acc)

C20_Witness ==
    /\ IsCtor(slast, LAMP) /\ who = 2
    /\ prior.val = 7 /\ prior.by = 1
    /\ FieldNow(LAMP, slast.pre) = 7
    /\ ReadVia(1, LAMP) = LIGHTS_OUT
    /\ FieldNow(SOL2, mem[MOCK]) = ON /\ FieldNow(SOL3, mem[MOCK]) = ON

\* C21: the power functor's Write receives its argument as an unsigned 16-bit
\* value, reduced modulo 2^16 before the range check: for every k in 0..7
\* Write(65536 + k) is accepted, stores k and returns the previous level, and
\* Write(-1) is rejected as 65535 with the image left as it was.
C21_ArgumentWraps ==
    /\ (IsWrite(last, LAMP) /\ last.arg[1] \in U16 .. (U16 + 7)) =>
            /\ last.err = NoErr
            /\ FieldNow(LAMP, reg) = last.arg[1] - U16
            /\ last.ret = Some(FieldNow(LAMP, last.pre))
    /\ (IsWrite(last, LAMP) /\ last.arg = Some(0 - 1)) =>
            /\ last.err = RangeError
            /\ reg = last.pre
            /\ DigitsValue(last.msg[2]) = U16 - 1

C21_Witness ==
    /\ IsWrite(last, LAMP) /\ last.arg = Some(U16 + 5)
    /\ FieldNow(LAMP, last.pre) = 2
    /\ FieldNow(LAMP, reg) = 5
    /\ IsWrite(prev, LAMP) /\ prev.arg = Some(0 - 1)

\* C22: a failed assertion is reported, not thrown: it leaves its lines on
\* stdout and raises nothing, the scenarios return in the order ut00, ut01,
\* ..., ut12, each once, and unless an exception left a scenario all thirteen
\* have returned before the summary is written, also after a failure.
C22_FailureDoesNotStopRun ==
    /\ ran = [i \in 1 .. Len(ran) |-> i - 1]
    /\ out.ret = 1 => (out.text # <<>> /\ thrown.type \in {NoErr, RangeError})
    /\ (pc \in {"summary", "done"} /\ thrown.type = NoErr) => Len(ran) = 13
    /\ banner # "" => pc = "done"

C22_Witness ==
    /\ pc = "done" /\ thrown.type = NoErr
    /\ Len(ran) = 13
    /\ 2 \in returned
    /\ out.utid = 12 /\ out.ret = 0
    /\ banner = FAILED

\* C23: main()'s failure flag is a latch: it is 0 or 1, it is set once some
\* scenario has returned a non-zero failure count, whatever the scenarios
\* after it return, and it is set only if some scenario returned non-zero or
\* an exception was caught.
C23_FlagIsLatch ==
    /\ something_failed \in {0, 1}
    /\ (\E v \in returned : v # 0) => something_failed = 1
    /\ something_failed = 1 =>
            \/ \E v \in returned : v # 0
            \/ thrown.type # NoErr /\ pc \in {"summary", "done"}

C23_Witness ==
    /\ returned = {0, 1, 2}
    /\ something_failed = 1
    /\ thrown.type = NoErr
    /\ ut_failed = 0 /\ step = 0 /\ ut = 12

\* C24: a range error is caught only where ut12 provokes it: a range error
\* thrown by a Write in another scenario is not handled there (the scenario
\* does not return), goes to the handler of main() and ends the run with the
\* failure banner and exit status 1; the one ut12 provokes never leaves ut12.
C24_RangeErrorCaughtOnlyInUt12 ==
    /\ thrown.type = RangeError =>
            /\ ut \in 7 .. 11
            /\ Len(ran) = ut
            /\ pc \in {"catch", "summary", "done"}
    /\ (thrown.type = RangeError /\ pc = "done") =>
            (banner = FAILED /\ exit_status = Some(1))
    /\ (Len(ran) = 13 /\ out.ret = 0) => thrown = NoThrow

C24_Witness ==
    /\ thrown.type = RangeError /\ thrown.msg[2] = <<MOOD_LIGHTING>>
    /\ ut = 9 /\ Len(ran) = 9
    /\ pc = "done" /\ exit_status = Some(1)
    /\ returned = {0}

LampScenarios == {2} \cup (7 .. 11)

\* C25: when an assertion on the power level fails, the value written as
\* expected(...) is the value the scenario expects and the value written as
\* encountered(...) is the value the functor returned.
C25_LampLabelsRight ==
    (out.ret = 1 /\ out.utid \in LampScenarios) =>
        /\ out.expected = checked.expected
        /\ out.encountered = checked.actual

\* ---------------------------------------------------------------------------
\* 'make all' (Makefile): run the harness into ./bitfield_ut_output.txt, then
\* compare that file with ./ut_ref_output/bitfield_ut_output.txt

MaxLines == 2

\* the lines a transcript is made of, as far as cmp can tell them apart
TranscriptLines == {"ok", "FAILED!"}

Transcripts ==
    UNION {[1 .. n -> TranscriptLines] : n \in 0 .. MaxLines}

\* the status make ends with when a recipe fails
MAKE_ERROR == 2

\* everything 'make all' leaves alone
MakeFrame == <<accVars, seqVars, utVars, fmtVars, anyVars, raceVars>>

\* cmp -s: 0 when the two files are the same, 1 when they differ
cmp(a, b) == IF a = b THEN 0 ELSE 1

\* the compare_ut_gold function: what the recipe echoes and the status its
\* shell ends with
compare_ut_gold(gold, results) ==
    IF gold = NoVal
    THEN [said |-> <<"ERROR: File does not exist.">>, status |-> 1]
    ELSE IF cmp(gold[1], results[1]) = 0
         THEN [said |-> <<" ", "UT passed">>, status |-> 0]
         ELSE [said |-> <<" ">> \o results[1] \o <<"UT FAILED!">>,
               status |-> 0]

\* the prerequisites of bitfield_all are up to date or about to be made; the
\* harness gives some transcript and status, a known-good file exists or not
MakeInit ==
    /\ make_pc = "run_ut"
    /\ harness \in [stdout : Transcripts, exit : {0, 1}]
    /\ ut_results = NoVal
    /\ gold_results \in {NoVal} \cup {Some(t) : t \in Transcripts}
    /\ recipe_said = <<>>
    /\ make_status = NoVal
    /\ reg = 0 /\ last = 0 /\ prev = 0
    /\ SeqIdle
    /\ UtIdle
    /\ FmtIdle
    /\ AnyIdle
    /\ RaceIdle

\* bitfield.run_ut: the harness writes its stdout to $(UT_RESULTS); a non-zero
\* exit status of the harness fails the recipe and stops make
bitfield_run_ut ==
    /\ make_pc = "run_ut"
    /\ ut_results' = Some(harness.stdout)
    /\ IF harness.exit # 0
       THEN /\ make_pc' = "done"
            /\ make_status' = Some(MAKE_ERROR)
       ELSE /\ make_pc' = "compare_ut_gold"
            /\ make_status' = make_status
    /\ UNCHANGED <<harness, gold_results, recipe_said, MakeFrame>>

\* bitfield.compare_ut_gold, the last prerequisite of bitfield_all
bitfield_compare_ut_gold ==
    /\ make_pc = "compare_ut_gold"
    /\ LET r == compare_ut_gold(gold_results, ut_results) IN
        /\ recipe_said' = r.said
        /\ make_status' = IF r.status # 0 THEN Some(MAKE_ERROR) ELSE Some(0)
    /\ make_pc' = "done"
    /\ UNCHANGED <<harness, ut_results, gold_results, MakeFrame>>

MakeNext == bitfield_run_ut \/ bitfield_compare_ut_gold

SpecMake == MakeInit /\ [][MakeNext]_vars

\* C26: when the transcript the harness wrote differs from the known-good
\* transcript, the compare recipe ends with a non-zero status and make fails.
C26_MismatchFailsMake ==
    (/\ make_pc = "done"
     /\ recipe_said # <<>>
     /\ gold_results # NoVal
     /\ ut_results # gold_results) => make_status # Some(0)

\* ---------------------------------------------------------------------------
\* The boilerplate asserting with an intent of any length: one scenario that
\* reads the start-up value of a field and verifies it

MinIntent == 36

MaxIntent == 45

\* the intent is some text of some length, the field one of the three
FmtInit ==
    /\ UtStart
    /\ fmt \in [acc : Fields, len : MinIntent .. MaxIntent]
    /\ SeqIdle
    /\ MakeIdle
    /\ AnyIdle
    /\ RaceIdle

\* retval = get_field(); verify(retval, start-up value), as ut00..ut02 do
fmt_assert ==
    RunScenario(0, Scenario(fmt.acc, <<>>,
                   <<Assertion("read", NoVal, Startup(fmt.acc), fmt.len)>>))

\* the scenario has returned and nothing was thrown: the try block is left
fmt_return ==
    /\ pc = "run" /\ ut = 1
    /\ pc' = "summary"
    /\ UNCHANGED <<ut, step, mock_reg84, ut_failed, something_failed, out,
                   nlines, thrown, unexpected, banner, exit_status,
                   assert_failed, broken, ran, returned, checked,
                   accVars, seqVars, extVars>>

FmtNext == fmt_assert \/ fmt_return \/ main_catch \/ main_summary

SpecFmt == FmtInit /\ [][FmtNext]_vars

\* C27: a passing assertion whose intent is shorter than 41 characters makes
\* the insert of the marker at column 95 raise an out-of-range error, which
\* reaches the handler of main() and fails the run although the value
\* matched; with an intent of 41 characters or more nothing is raised.
C27_ShortIntentFailsRun ==
    (checked # NoCheck /\ checked.actual = checked.expected) =>
        IF fmt.len < 41
        THEN /\ thrown.type = OutOfRange
             /\ ran = <<>>
             /\ pc \in {"catch", "summary", "done"}
             /\ pc # "catch" => something_failed = 1
             /\ pc = "done" => (banner = FAILED /\ exit_status = Some(1))
        ELSE /\ thrown = NoThrow
             /\ out.ret = 0 /\ Len(out.text) = ok_col_pos + Len(ok_text)
             /\ pc = "done" => (banner = PASSED /\ exit_status = Some(0))

C27_Witness ==
    /\ fmt = [acc |-> LAMP, len |-> 40]
    /\ checked = Check(LIGHTS_OUT, LIGHTS_OUT)
    /\ thrown.type = OutOfRange
    /\ pc = "done" /\ banner = FAILED /\ exit_status = Some(1)

\* ---------------------------------------------------------------------------
\* main() with its calls of the scenarios reordered or repeated: the static
\* image of a scenario keeps what the previous call of it left

MaxPicks == 1

AnyInit ==
    /\ UtStart
    /\ picks = 0
    /\ SeqIdle
    /\ MakeIdle
    /\ FmtIdle
    /\ RaceIdle

\* the next call of main() is some scenario other than the one in line; a
\* functor that has misbehaved stays on record, so calls out of order are
\* followed from the runs in which none has
pick ==
    /\ pc = "run" /\ step = 0
    /\ picks < MaxPicks /\ ~broken
    /\ \E k \in Scenarios \ {ut} : ut' = k
    /\ picks' = picks + 1
    /\ UNCHANGED <<pc, step, mock_reg84, ut_failed, something_failed, out,
                   nlines, thrown, unexpected, banner, exit_status,
                   assert_failed, broken, ran, returned, checked,
                   accVars, seqVars, makeVars, fmtVars, raceVars>>

AnyNext == pick \/ UtNext

SpecAny == AnyInit /\ [][AnyNext]_vars

\* the i-th line scenario k writes in a run of the harness as written
GoldOf(k, i) ==
    Gold[CHOOSE n \in 1 .. Len(Gold) :
            /\ Gold[n].utid = k
            /\ Cardinality({m \in 1 .. n : Gold[m].utid = k}) = i]

\* C28: a scenario gives the same result and the same lines in whatever order
\* the scenarios are called and when it is called again: as long as the
\* functors answer as their code says, every assertion of every call passes
\* with the line it has in the run of main() as written, every scenario
\* returns 0 and nothing is thrown.
C28_OrderIndependent ==
    ~broken =>
        /\ thrown = NoThrow /\ ~assert_failed
        /\ returned \subseteq {0}
        /\ ut_failed = 0
        /\ out # NoOutput =>
              /\ out.ret = 0
              /\ nlines \in 1 .. 2
              /\ out.text = [k \in 1 .. 97 |->
                                IF k <= GoldOf(out.utid, nlines).len THEN "x"
                                ELSE IF k <= 95 THEN "."
                                ELSE IF k = 96 THEN "o" ELSE "k"]
        /\ pc = "done" => (banner = PASSED /\ exit_status = Some(0))

\* ut00 .. ut09 have returned, then ut08 is called again and has passed
C28_Witness ==
    /\ ~broken
    /\ picks > 0
    /\ ran = [i \in 1 .. 10 |-> i - 1]
    /\ ut = 9 /\ step = 0 /\ pc = "run"
    /\ out.utid = 8 /\ out.ret = 0 /\ nlines = 2

\* ---------------------------------------------------------------------------
\* Two callers of Write on the same field of one image. Nothing in
\* operator()(val) excludes the other caller: the read of the previous value,
\* the load of the word for the bit-field store and the store of the merged
\* word are steps of their own, taken in any interleaving.

MaxRaceArg == 3

Writers == {1, 2}

OtherWriter(t) == 3 - t

\* the values a caller passes: all in range
RaceArgs(acc) == IF acc = LAMP THEN 0 .. MaxRaceArg ELSE {OFF, ON}

RaceInit ==
    /\ racc \in Fields
    /\ rinit \in RaceArgs(racc)
    /\ io = Set(racc, Ctor(racc, 0), rinit).img
    /\ rarg \in [Writers -> RaceArgs(racc)]
    /\ rpc = [t \in Writers |-> "call"]
    /\ rword = [t \in Writers |-> 0]
    /\ rret = [t \in Writers |-> NoVal]
    /\ order = <<>>
    /\ overlapped = FALSE
    /\ reg = 0 /\ last = 0 /\ prev = 0
    /\ SeqIdle
    /\ UtIdle
    /\ MakeIdle
    /\ FmtIdle
    /\ AnyIdle

RaceFrame == <<accVars, seqVars, utVars, makeVars, fmtVars, anyVars>>

\* retval = the field's 'prior to call' value
write_read(t) ==
    /\ rpc[t] = "call"
    /\ rret' = [rret EXCEPT ![t] = Set(racc, io, rarg[t]).ret]
    /\ rpc' = [rpc EXCEPT ![t] = "load"]
    /\ order' = Append(order, t)
    /\ overlapped' = (overlapped \/ rpc[OtherWriter(t)] \in {"load", "store"})
    /\ UNCHANGED <<io, racc, rarg, rword, rinit, RaceFrame>>

\* reg->field = val, first half: the word holding the bit-field is loaded
write_load(t) ==
    /\ rpc[t] = "load"
    /\ rword' = [rword EXCEPT ![t] = io]
    /\ rpc' = [rpc EXCEPT ![t] = "store"]
    /\ UNCHANGED <<io, racc, rarg, rret, rinit, order, overlapped, RaceFrame>>

\* reg->field = val, second half: the word with the field replaced is stored;
\* return retval
write_store(t) ==
    /\ rpc[t] = "store"
    /\ io' = Set(racc, rword[t], rarg[t]).img
    /\ rpc' = [rpc EXCEPT ![t] = "done"]
    /\ UNCHANGED <<racc, rarg, rword, rret, rinit, order, overlapped, RaceFrame>>

RaceNext == \E t \in Writers : write_read(t) \/ write_load(t) \/ write_store(t)

SpecRace == RaceInit /\ [][RaceNext]_vars

BothDone == \A t \in Writers : rpc[t] = "done"

\* C29: nothing serializes two Writes on one field. A Write returns the value
\* the field had at its read, which is the value before both calls or the
\* other caller's argument; when the two calls do not overlap, the second
\* returns what the first wrote and the field ends as the second's argument,
\* so every transition is observed; two calls that both return the value
\* before the calls, the first having changed it, have overlapped.
C29_LostOnlyByOverlap ==
    /\ \A t \in Writers :
          rret[t] # NoVal => rret[t][1] \in {rinit, rarg[OtherWriter(t)]}
    /\ BothDone =>
          /\ FieldNow(racc, io) \in {rarg[1], rarg[2]}
          /\ \A f \in Fields \ {racc} : FieldNow(f, io) = Startup(f)
          /\ PadNow(io) = 0
          /\ rret[order[1]] = Some(rinit)
    /\ (BothDone /\ ~overlapped) =>
          /\ rret[order[2]] = Some(rarg[order[1]])
          /\ FieldNow(racc, io) = rarg[order[2]]
    /\ (BothDone /\ rret[1] = rret[2] /\ rarg[order[1]] # rinit) => overlapped

\* both callers got 0 as the previous power level; the field went from 0 to 1
\* and from 1 to 2 and no caller was told of the 1
C29_Witness ==
    /\ BothDone
    /\ racc = LAMP /\ rinit = 0 /\ rarg = [t \in Writers |-> t]
    /\ rret = [t \in Writers |-> Some(0)]
    /\ order = <<1, 2>>
    /\ FieldNow(LAMP, io) = 2
    /\ overlapped

\* ---------------------------------------------------------------------------
\* The harness as a process that is never held up: main() is sequential and
\* each of its steps, once it can be taken, is taken

SpecUtFair == UtInit /\ [][UtNext]_vars /\ WF_vars(UtNext)

PassedOutcome == banner = PASSED /\ exit_status = Some(0)

FailedOutcome == banner = FAILED /\ exit_status = Some(1)

\* C30: every run of the harness terminates: whatever the functors return or
\* raise, main() eventually is at its end, for good, with one of two
\* outcomes, 'UNIT TEST passed!' and exit status 0 or 'UNIT TEST FAILED!' and
\* exit status 1.
C30_Terminates ==
    <>[](/\ pc = "done"
         /\ PassedOutcome \/ FailedOutcome
         /\ ~(PassedOutcome /\ FailedOutcome))

\* a run in which a functor both returned a wrong value and later raised
C30_Witness ==
    /\ pc = "done"
    /\ FailedOutcome
    /\ assert_failed /\ thrown.type = RangeError
    /\ ut = 11

====
